---- MODULE Spec2Model ----
(***************************************************************************)
(* Model of the constant-product pool ledger of src/src/lib.rs (mod amm).  *)
(*                                                                         *)
(* Every amount of the program is a Rust u32.  TLC's integers are 32-bit   *)
(* signed, so a u32 value v is stored as the integer with the same 32-bit  *)
(* pattern: v itself when v < 2^31, and v - 2^32 (a negative number) when  *)
(* v >= 2^31.  All arithmetic and all order comparisons on amounts go      *)
(* through the U32 operators below, which compute on 16-bit halves.        *)
(*                                                                         *)
(* Rust's +, - and * on u32 panic on overflow when the build has overflow  *)
(* checks and wrap modulo 2^32 when it has not; division by zero panics in *)
(* every build.  The model is of the build with overflow checks, which is  *)
(* what rustc, cargo build and cargo test produce unless asked otherwise   *)
(* (overflow_checks below).  A panic aborts the program.                   *)
(***************************************************************************)
EXTENDS Integers, FiniteSets, Sequences, TLC

\* ------------------------------------------------------------------ bounds
MaxSeeds == 2
MaxCalls == 3
MaxPriceCalls == 5
MaxFaucetSeeds == 3
MaxDustCalls == 7

\* --------------------------------------------------------------- constants
PRECISION == 1000000
Two16 == 65536

\* the build profile: TRUE = +, - and * panic on overflow (dev and test
\* profiles, the default); FALSE = they wrap (release profile)
overflow_checks == TRUE

\* ------------------------------------------------------------------- state
VARIABLES
    amm,              \* the struct Amm
    call,             \* the last call: operation, arguments and outcome
    pre,              \* the struct Amm as it was before the last call
    nseeds,           \* number of get_free_tokens calls so far
    ncalls            \* number of deposit/withdraw/swap/quote calls so far

vars == <<amm, call, pre, nseeds, ncalls>>

\* ---------------------------------------------------------- u32 arithmetic
Hi(x) == (x \div Two16) % Two16
Lo(x) == x % Two16

Pack(h, l) == IF h >= 32768 THEN (h - Two16) * Two16 + l ELSE h * Two16 + l

\* unsigned a < b
ULt(a, b) == IF (a >= 0) = (b >= 0) THEN a < b ELSE a >= 0
ULe(a, b) == a = b \/ ULt(a, b)

\* a + b modulo 2^32, and whether the exact sum is above u32::MAX
U32Add(a, b) ==
    LET lo == Lo(a) + Lo(b)
        hi == Hi(a) + Hi(b) + (lo \div Two16)
    IN  Pack(hi % Two16, lo % Two16)

AddOverflows(a, b) ==
    LET lo == Lo(a) + Lo(b)
    IN  Hi(a) + Hi(b) + (lo \div Two16) >= Two16

\* a - b modulo 2^32, and whether the exact difference is below zero
U32Sub(a, b) ==
    LET lo == Lo(a) - Lo(b)
        hi == Hi(a) - Hi(b) - (IF lo < 0 THEN 1 ELSE 0)
    IN  Pack(hi % Two16, lo % Two16)

SubOverflows(a, b) == ULt(a, b)

\* the 32-bit product of two 16-bit halves, as <<high half, low half>>
Mul16(x, y) ==
    LET t1 == (x \div 256) * y
        t2 == (x % 256) * y
        s  == (t1 % 256) * 256 + t2
    IN  <<(t1 \div 256) + (s \div Two16), s % Two16>>

\* a * b modulo 2^32, and whether the exact product is above u32::MAX
U32Mul(a, b) ==
    LET p0  == Mul16(Lo(a), Lo(b))
        c1  == Mul16(Hi(a), Lo(b))
        c2  == Mul16(Lo(a), Hi(b))
        mid == p0[1] + c1[2] + c2[2]
    IN  Pack(mid % Two16, p0[2])

MulOverflows(a, b) ==
    LET p0  == Mul16(Lo(a), Lo(b))
        c1  == Mul16(Hi(a), Lo(b))
        c2  == Mul16(Lo(a), Hi(b))
        mid == p0[1] + c1[2] + c2[2]
    IN  \/ (Hi(a) > 0 /\ Hi(b) > 0)
        \/ c1[1] > 0
        \/ c2[1] > 0
        \/ mid >= Two16

\* floor(a / b) for b # 0
U32Div(a, b) ==
    IF b < 0 THEN (IF ULt(a, b) THEN 0 ELSE 1)
    ELSE IF a >= 0 THEN a \div b
    ELSE LET h  == (a \div 2) + 2147483647 + 1
             l  == a % 2
             q1 == h \div b
             r1 == h % b
             e  == IF r1 >= b - r1 - l THEN 1 ELSE 0
         IN  U32Add(U32Add(q1, q1), e)


\* arithmetic as the build evaluates it: p is "the operation panics", v the
\* value it yields otherwise
add(a, b) == [p |-> overflow_checks /\ AddOverflows(a, b), v |-> U32Add(a, b)]
sub(a, b) == [p |-> overflow_checks /\ SubOverflows(a, b), v |-> U32Sub(a, b)]
mul(a, b) == [p |-> overflow_checks /\ MulOverflows(a, b), v |-> U32Mul(a, b)]
div(a, b) == [p |-> b = 0, v |-> IF b = 0 THEN 0 ELSE U32Div(a, b)]

\* ------------------------------------------------------------ call results
Ok(v)  == [kind |-> "Ok", err |-> "None", val |-> v]
Err(e) == [kind |-> "Err", err |-> e, val |-> << >>]
Panic  == [kind |-> "Panic", err |-> "None", val |-> << >>]

\* ------------------------------------------------------- Balances (HashMap)
EmptyBalances == [k \in {} |-> 0]
Get(balances, k) == IF k \in DOMAIN balances THEN balances[k] ELSE 0
Insert(balances, k, v) ==
    [j \in DOMAIN balances \cup {k} |-> IF j = k THEN v ELSE balances[j]]
\* entry(k).and_modify(|val| *val = v): nothing happens for an absent key
AndModify(balances, k, v) ==
    IF k \in DOMAIN balances THEN [balances EXCEPT ![k] = v] ELSE balances

\* ------------------------------------------------------------------ struct
Default ==
    [fees |-> 0, total_pool_shares |-> 0,
     token_a_pool_balance |-> 0, token_b_pool_balance |-> 0,
     token_a_user_balance |-> EmptyBalances,
     token_b_user_balance |-> EmptyBalances,
     user_pool_shares |-> EmptyBalances]

\* new that stores the fee rate it is given
new_unclamped(fees) == [Default EXCEPT !.fees = fees]

new(fees) == [Default EXCEPT !.fees = IF ULe(1000, fees) THEN 0 ELSE fees]

is_valid_amount(account_id, balances, amount) ==
    LET account_balance == Get(balances, account_id)
    IN  IF amount = 0 THEN Err("ZeroAmount")
        ELSE IF ULt(account_balance, amount) THEN Err("InsufficientAmount")
        ELSE Ok(<< >>)

get_pool_balance(s) == mul(s.token_a_pool_balance, s.token_b_pool_balance)

\* is_pool_active that accepts a pool balance of zero
is_pool_active_any_balance(s) ==
    LET pb == get_pool_balance(s)
    IN  IF pb.p THEN Panic ELSE Ok(<< >>)

is_pool_active(s) ==
    LET pb == get_pool_balance(s)
    IN  IF pb.p THEN Panic
        ELSE IF pb.v = 0 THEN Err("ZeroLiquidity")
        ELSE Ok(<< >>)

get_account_balance(s, account_id) ==
    <<Get(s.token_a_user_balance, account_id),
      Get(s.token_b_user_balance, account_id),
      Get(s.user_pool_shares, account_id)>>

get_pool_info(s) ==
    <<s.token_a_pool_balance, s.token_b_pool_balance,
      s.total_pool_shares, s.fees>>

\* ------------------------------------------------------------ quote engine
get_token_a_swap_amount_out(s, token_b_amount) ==
    LET act == is_pool_active(s)
        m   == mul(s.token_a_pool_balance, token_b_amount)
        d   == div(m.v, s.token_b_pool_balance)
    IN  IF act.kind # "Ok" THEN act
        ELSE IF m.p \/ d.p THEN Panic
        ELSE Ok(<<d.v>>)

get_token_b_swap_amount_out(s, token_a_amount) ==
    LET act == is_pool_active(s)
        m   == mul(s.token_b_pool_balance, token_a_amount)
        d   == div(m.v, s.token_a_pool_balance)
    IN  IF act.kind # "Ok" THEN act
        ELSE IF m.p \/ d.p THEN Panic
        ELSE Ok(<<d.v>>)

\* get_withdraw_amount with token B's amount taken from token A's reserve
get_withdraw_amount_one_reserve(s, share) ==
    LET act == is_pool_active(s)
        ma  == mul(s.token_a_pool_balance, share)
        da  == div(ma.v, s.total_pool_shares)
    IN  IF act.kind # "Ok" THEN act
        ELSE IF ULt(s.total_pool_shares, share) THEN Err("InvalidShare")
        ELSE IF ma.p \/ da.p THEN Panic
        ELSE Ok(<<da.v, da.v>>)

get_withdraw_amount(s, share) ==
    LET act == is_pool_active(s)
        ma  == mul(s.token_a_pool_balance, share)
        da  == div(ma.v, s.total_pool_shares)
        mb  == mul(s.token_b_pool_balance, share)
        db  == div(mb.v, s.total_pool_shares)
    IN  IF act.kind # "Ok" THEN act
        ELSE IF ULt(s.total_pool_shares, share) THEN Err("InvalidShare")
        ELSE IF ma.p \/ da.p \/ mb.p \/ db.p THEN Panic
        ELSE Ok(<<da.v, db.v>>)

get_swap_amount_for_token_b(s, token_a_amount) ==
    LET act  == is_pool_active(s)
        fm   == mul(1000 - s.fees, token_a_amount)
        eff  == div(fm.v, 1000)
        total_token_a == add(s.token_a_pool_balance, eff.v)
        pb   == get_pool_balance(s)
        total_token_b == div(pb.v, total_token_a.v)
        out  == sub(s.token_b_pool_balance, total_token_b.v)
        dec  == sub(out.v, 1)
    IN  IF act.kind # "Ok" THEN act
        ELSE IF fm.p \/ total_token_a.p \/ pb.p \/ total_token_b.p \/ out.p
        THEN Panic
        ELSE IF total_token_b.v = s.token_b_pool_balance
        THEN (IF dec.p THEN Panic ELSE Ok(<<dec.v>>))
        ELSE Ok(<<out.v>>)

get_swap_amount_for_token_a(s, token_b_amount) ==
    LET act  == is_pool_active(s)
        total_token_b == sub(s.token_b_pool_balance, token_b_amount)
        pb   == get_pool_balance(s)
        total_token_a == div(pb.v, total_token_b.v)
        diff == sub(total_token_a.v, s.token_a_pool_balance)
        gm   == mul(diff.v, 1000)
        out  == div(gm.v, 1000 - s.fees)
    IN  IF act.kind # "Ok" THEN act
        ELSE IF ULt(s.token_b_pool_balance, token_b_amount)
        THEN Err("InsufficientLiquidity")
        ELSE IF total_token_b.p \/ pb.p \/ total_token_a.p \/ diff.p
                \/ gm.p \/ out.p
        THEN Panic
        ELSE Ok(<<out.v>>)

\* --------------------------------------------------------------- mutations
\* Every mutation yields [st |-> the struct when the call ends, res |-> its
\* outcome].  A panic ends the call where it happens, so st then holds the
\* fields written before it.
Out(s, r) == [st |-> s, res |-> r]

\* A statement that writes the struct yields [p |-> it panics, st |-> the
\* struct after it].
\* self.field = x
Assign(st, field, x) == [p |-> x.p, st |-> [st EXCEPT ![field] = x.v]]

\* self.field.insert(k, x)
InsertInto(st, field, k, x) ==
    [p |-> x.p, st |-> [st EXCEPT ![field] = Insert(@, k, x.v)]]

\* self.field.entry(k).and_modify(|val| *val = F(val)): the closure runs, and
\* can panic, only when the key is present
AndModifyIn(st, field, k, F(_)) ==
    IF k \in DOMAIN st[field]
    THEN Assign(st, field, [p |-> F(st[field][k]).p,
                            v |-> AndModify(st[field], k, F(st[field][k]).v)])
    ELSE [p |-> FALSE, st |-> st]

\* the outcome of a statement that follows o
Done(st, res, r) == IF r.p THEN Out(st, Panic) ELSE Out(r.st, res)

\* o, then the statement Stmt unless the call has already panicked
Then(o, Stmt(_)) ==
    IF o.res.kind = "Panic" THEN o ELSE Done(o.st, o.res, Stmt(o.st))

get_free_tokens(s, account_id, token_a_amount, token_b_amount) ==
    LET token_a_balance == Get(s.token_a_user_balance, account_id)
        token_b_balance == Get(s.token_b_user_balance, account_id)
        credit_a(st) == InsertInto(st, "token_a_user_balance", account_id,
                                   add(token_a_balance, token_a_amount))
        credit_b(st) == InsertInto(st, "token_b_user_balance", account_id,
                                   add(token_b_balance, token_b_amount))
    IN  Then(Then(Out(s, Ok(<< >>)), credit_a), credit_b)

\* the outcome of lines 116-127 given the two share amounts (each [p, v])
deposit_compare(token_a_share, token_b_share) ==
    IF token_a_share.p \/ token_b_share.p THEN Panic
    ELSE IF token_a_share.v # token_b_share.v THEN Err("NonEquivalentValue")
    ELSE IF token_a_share.v = 0 THEN Err("ThresholdNotReached")
    ELSE Ok(<<token_a_share.v>>)

\* total_pool_shares * amount / reserve, as [p, v]
deposit_share_of(m, reserve) ==
    [p |-> m.p \/ div(m.v, reserve).p, v |-> div(m.v, reserve).v]

\* deposit_shares with a bootstrap amount that follows the deposited amount
deposit_shares_by_amount(s, token_a_amount, token_b_amount) ==
    IF s.total_pool_shares = 0
    THEN (IF token_a_amount * PRECISION = 0 THEN Err("ThresholdNotReached")
          ELSE Ok(<<token_a_amount * PRECISION>>))
    ELSE deposit_compare(
             deposit_share_of(mul(s.total_pool_shares, token_a_amount),
                              s.token_a_pool_balance),
             deposit_share_of(mul(s.total_pool_shares, token_b_amount),
                              s.token_b_pool_balance))

\* lines 112-127: the shares a deposit mints
deposit_shares(s, token_a_amount, token_b_amount) ==
    IF s.total_pool_shares = 0
    THEN (IF 100 * PRECISION = 0 THEN Err("ThresholdNotReached")
          ELSE Ok(<<100 * PRECISION>>))
    ELSE deposit_compare(
             deposit_share_of(mul(s.total_pool_shares, token_a_amount),
                              s.token_a_pool_balance),
             deposit_share_of(mul(s.total_pool_shares, token_b_amount),
                              s.token_b_pool_balance))

\* lines 129-148: the writes of a deposit
deposit_commit(s, account_id, token_a_amount, token_b_amount, shares) ==
    LET token_a_balance == Get(s.token_a_user_balance, account_id)
        token_b_balance == Get(s.token_b_user_balance, account_id)
        debit_a(st) == InsertInto(st, "token_a_user_balance", account_id,
                                  sub(token_a_balance, token_a_amount))
        debit_b(st) == InsertInto(st, "token_b_user_balance", account_id,
                                  sub(token_b_balance, token_b_amount))
        pool_a(st) == Assign(st, "token_a_pool_balance",
                             add(st.token_a_pool_balance, token_a_amount))
        pool_b(st) == Assign(st, "token_b_pool_balance",
                             add(st.token_b_pool_balance, token_b_amount))
        total(st) == Assign(st, "total_pool_shares",
                            add(st.total_pool_shares, shares))
        \* and_modify(|val| *val += shares).or_insert(shares)
        user(st) == IF account_id \in DOMAIN st.user_pool_shares
                    THEN AndModifyIn(st, "user_pool_shares", account_id,
                                     LAMBDA val : add(val, shares))
                    ELSE InsertInto(st, "user_pool_shares", account_id,
                                    [p |-> FALSE, v |-> shares])
    IN  Then(Then(Then(Then(Then(Then(Out(s, Ok(<<shares>>)),
             debit_a), debit_b), pool_a), pool_b), total), user)

\* a deposit once both amounts are valid: sh is the outcome of lines 112-127
deposit_minted(s, account_id, token_a_amount, token_b_amount, sh) ==
    IF sh.kind # "Ok" THEN Out(s, sh)
    ELSE deposit_commit(s, account_id, token_a_amount, token_b_amount,
                        sh.val[1])

\* deposit that validates the amount of token B before the amount of token A
deposit_b_first(s, account_id, token_a_amount, token_b_amount) ==
    LET va == is_valid_amount(account_id, s.token_a_user_balance,
                              token_a_amount)
        vb == is_valid_amount(account_id, s.token_b_user_balance,
                              token_b_amount)
    IN  IF vb.kind # "Ok" THEN Out(s, vb)
        ELSE IF va.kind # "Ok" THEN Out(s, va)
        ELSE deposit_minted(s, account_id, token_a_amount, token_b_amount,
                            deposit_shares(s, token_a_amount, token_b_amount))

deposit(s, account_id, token_a_amount, token_b_amount) ==
    LET va == is_valid_amount(account_id, s.token_a_user_balance,
                              token_a_amount)
        vb == is_valid_amount(account_id, s.token_b_user_balance,
                              token_b_amount)
    IN  IF va.kind # "Ok" THEN Out(s, va)
        ELSE IF vb.kind # "Ok" THEN Out(s, vb)
        ELSE deposit_minted(s, account_id, token_a_amount, token_b_amount,
                            deposit_shares(s, token_a_amount, token_b_amount))

\* line 182: the new value of the withdrawing account's shares
withdraw_user_shares(val, share) == add(val, share)

\* lines 180-197: the writes of a withdraw
withdraw_commit(s, account_id, share, token_a_amount, token_b_amount) ==
    LET user(st) == AndModifyIn(st, "user_pool_shares", account_id,
                                LAMBDA val : withdraw_user_shares(val, share))
        total(st) == Assign(st, "total_pool_shares",
                            sub(st.total_pool_shares, share))
        pool_a(st) == Assign(st, "token_a_pool_balance",
                             sub(st.token_a_pool_balance, token_a_amount))
        pool_b(st) == Assign(st, "token_b_pool_balance",
                             sub(st.token_b_pool_balance, token_b_amount))
        credit_a(st) == AndModifyIn(st, "token_a_user_balance", account_id,
                                    LAMBDA val : add(val, token_a_amount))
        credit_b(st) == AndModifyIn(st, "token_b_user_balance", account_id,
                                    LAMBDA val : add(val, token_b_amount))
    IN  Then(Then(Then(Then(Then(Then(
             Out(s, Ok(<<token_a_amount, token_b_amount>>)),
             user), total), pool_a), pool_b), credit_a), credit_b)

\* a withdraw once the share is valid: q is the outcome of line 179
withdraw_quoted(s, account_id, share, q) ==
    IF q.kind # "Ok" THEN Out(s, q)
    ELSE withdraw_commit(s, account_id, share, q.val[1], q.val[2])

withdraw(s, account_id, share) ==
    LET v == is_valid_amount(account_id, s.user_pool_shares, share)
    IN  IF v.kind # "Ok" THEN Out(s, v)
        ELSE withdraw_quoted(s, account_id, share,
                             get_withdraw_amount(s, share))

\* line 237: the quote swap_token_a_for_token_b asks for
swap_a_quote(s, token_a_amount) == get_swap_amount_for_token_a(s, token_a_amount)

\* swap_a_commit that leaves the reserve of token B as it is
swap_a_commit_keep_reserve(s, account_id, token_a_amount, token_b_amount) ==
    LET debit_a(st) == AndModifyIn(st, "token_a_user_balance", account_id,
                                   LAMBDA val : sub(val, token_a_amount))
        pool_a(st) == Assign(st, "token_a_pool_balance",
                             add(st.token_a_pool_balance, token_a_amount))
        credit_b(st) == AndModifyIn(st, "token_b_user_balance", account_id,
                                    LAMBDA val : add(val, token_b_amount))
    IN  Then(Then(Then(Out(s, Ok(<<token_b_amount>>)),
             debit_a), pool_a), credit_b)

\* lines 242-253: the writes of swap_token_a_for_token_b
swap_a_commit(s, account_id, token_a_amount, token_b_amount) ==
    LET debit_a(st) == AndModifyIn(st, "token_a_user_balance", account_id,
                                   LAMBDA val : sub(val, token_a_amount))
        pool_a(st) == Assign(st, "token_a_pool_balance",
                             add(st.token_a_pool_balance, token_a_amount))
        pool_b(st) == Assign(st, "token_b_pool_balance",
                             sub(st.token_b_pool_balance, token_b_amount))
        credit_b(st) == AndModifyIn(st, "token_b_user_balance", account_id,
                                    LAMBDA val : add(val, token_b_amount))
    IN  Then(Then(Then(Then(Out(s, Ok(<<token_b_amount>>)),
             debit_a), pool_a), pool_b), credit_b)

\* swap_token_a_for_token_b once the amount is valid: q is the outcome of
\* line 237 (swap_a_quoted); first the same without the comparison with the
\* caller's minimum
swap_a_quoted_no_minimum(s, account_id, token_a_amount, min_token_b, q) ==
    IF q.kind # "Ok" THEN Out(s, q)
    ELSE swap_a_commit(s, account_id, token_a_amount, q.val[1])

swap_a_quoted(s, account_id, token_a_amount, min_token_b, q) ==
    IF q.kind # "Ok" THEN Out(s, q)
    ELSE IF ULt(q.val[1], min_token_b) THEN Out(s, Err("SlippageExceeded"))
    ELSE swap_a_commit(s, account_id, token_a_amount, q.val[1])

swap_token_a_for_token_b(s, account_id, token_a_amount, min_token_b) ==
    LET v == is_valid_amount(account_id, s.token_a_user_balance,
                             token_a_amount)
    IN  IF v.kind # "Ok" THEN Out(s, v)
        ELSE swap_a_quoted(s, account_id, token_a_amount, min_token_b,
                           swap_a_quote(s, token_a_amount))

\* swap_b_debit that takes the amount from every account's balance
swap_b_debit_everyone(s, account_id, token_b_amount, token_a_amount) ==
    Out([s EXCEPT !.token_b_user_balance =
                      [k \in DOMAIN @ |-> U32Sub(@[k], token_b_amount)]],
        Ok(<<token_a_amount>>))

\* lines 269-271: the debit of swap_token_b_for_token_a
swap_b_debit(s, account_id, token_b_amount, token_a_amount) ==
    LET debit_b(st) == AndModifyIn(st, "token_b_user_balance", account_id,
                                   LAMBDA val : sub(val, token_b_amount))
    IN  Then(Out(s, Ok(<<token_a_amount>>)), debit_b)

\* lines 273-280: the writes of swap_token_b_for_token_a after the debit
swap_b_settle(o, account_id, token_b_amount, token_a_amount) ==
    LET pool_a(st) == Assign(st, "token_a_pool_balance",
                             sub(st.token_a_pool_balance, token_a_amount))
        pool_b(st) == Assign(st, "token_b_pool_balance",
                             add(st.token_b_pool_balance, token_b_amount))
        credit_a(st) == AndModifyIn(st, "token_a_user_balance", account_id,
                                    LAMBDA val : add(val, token_a_amount))
    IN  Then(Then(Then(o, pool_a), pool_b), credit_a)

\* the slippage check made on o, the outcome of the debit
swap_b_check_after(o, account_id, token_b_amount, min_token_a, token_a_amount) ==
    IF o.res.kind = "Panic" THEN o
    ELSE IF ULt(token_a_amount, min_token_a)
    THEN Out(o.st, Err("SlippageExceeded"))
    ELSE swap_b_settle(o, account_id, token_b_amount, token_a_amount)

\* swap_token_b_for_token_a_late_check once the amount is valid
swap_b_quoted_late_check(s, account_id, token_b_amount, min_token_a, q) ==
    IF q.kind # "Ok" THEN Out(s, q)
    ELSE swap_b_check_after(
             swap_b_debit(s, account_id, token_b_amount, q.val[1]),
             account_id, token_b_amount, min_token_a, q.val[1])

\* swap_token_b_for_token_a once the amount is valid: q is the outcome of
\* line 264
swap_b_quoted(s, account_id, token_b_amount, min_token_a, q) ==
    IF q.kind # "Ok" THEN Out(s, q)
    ELSE IF ULt(q.val[1], min_token_a) THEN Out(s, Err("SlippageExceeded"))
    ELSE swap_b_settle(swap_b_debit(s, account_id, token_b_amount, q.val[1]),
                       account_id, token_b_amount, q.val[1])

\* swap_token_b_for_token_a with the slippage check made after the debit
swap_token_b_for_token_a_late_check(s, account_id, token_b_amount, min_token_a) ==
    LET v == is_valid_amount(account_id, s.token_b_user_balance,
                             token_b_amount)
    IN  IF v.kind # "Ok" THEN Out(s, v)
        ELSE swap_b_quoted_late_check(
                 s, account_id, token_b_amount, min_token_a,
                 get_swap_amount_for_token_a(s, token_b_amount))

swap_token_b_for_token_a(s, account_id, token_b_amount, min_token_a) ==
    LET v == is_valid_amount(account_id, s.token_b_user_balance,
                             token_b_amount)
    IN  IF v.kind # "Ok" THEN Out(s, v)
        ELSE swap_b_quoted(s, account_id, token_b_amount, min_token_a,
                           get_swap_amount_for_token_a(s, token_b_amount))

\* ------------------------------------------------------------------ inputs
Accounts     == {"account-1", "account-2"}
FeeInputs    == {0, 100, 1000}
SeedInputs   == {<<100, 200>>}
DepositInputs == {<<0, 20>>, <<10, 0>>, <<300, 20>>, <<10, 300>>,
                  <<10, 20>>, <<50, 100>>, <<1, 2>>, <<1, 20>>}
ShareInputs  == {0, 20000000, 100000000}
SwapInputs   == {0, 10, 15, 20, 50}
MinInputs    == {0, 51}
QuoteInputs  == {0, 20}
SwapArgs     == (SwapInputs \X {0}) \cup ({50} \X MinInputs)

\* ----------------------------------------------------------- specification
None == "none"
Record(op, account_id, args, res) ==
    [op |-> op, account_id |-> account_id, args |-> args, res |-> res]

\* a panic aborts the program
Running == call.res.kind # "Panic"

Init ==
    /\ \E fees \in FeeInputs :
          /\ amm = new(fees)
          /\ call = Record("new", None, <<fees>>, Ok(<< >>))
    /\ pre = Default
    /\ nseeds = 0
    /\ ncalls = 0

\* a call of a mutation: o is what the operation yields on the current struct
Mutate(bound, op, account_id, args, o) ==
    /\ Running
    /\ ncalls < bound
    /\ amm' = o.st
    /\ call' = Record(op, account_id, args, o.res)
    /\ pre' = amm
    /\ ncalls' = ncalls + 1
    /\ UNCHANGED nseeds

\* a call of a quote: r is its outcome; the struct is only read
Query(bound, op, args, r) ==
    /\ Running
    /\ ncalls < bound
    /\ call' = Record(op, None, args, r)
    /\ pre' = amm
    /\ ncalls' = ncalls + 1
    /\ UNCHANGED <<amm, nseeds>>

\* calls of get_free_tokens, at most bound of them
SeedOf(bound, accounts, inputs) ==
    \E account_id \in accounts, amt \in inputs :
        LET o == get_free_tokens(amm, account_id, amt[1], amt[2])
        IN  /\ Running
            /\ nseeds < bound
            /\ amm' = o.st
            /\ call' = Record("get_free_tokens", account_id, amt, o.res)
            /\ pre' = amm
            /\ nseeds' = nseeds + 1
            /\ UNCHANGED ncalls

GetFreeTokensOf(accounts) == SeedOf(MaxSeeds, accounts, SeedInputs)

DepositOf(bound, accounts, inputs) ==
    \E account_id \in accounts, amt \in inputs :
        Mutate(bound, "deposit", account_id, amt,
               deposit(amm, account_id, amt[1], amt[2]))

WithdrawOf(bound, accounts, inputs) ==
    \E account_id \in accounts, share \in inputs :
        Mutate(bound, "withdraw", account_id, <<share>>,
               withdraw(amm, account_id, share))

SwapTokenAForTokenBOf(bound, accounts, swaps) ==
    \E account_id \in accounts, s \in swaps :
        Mutate(bound, "swap_token_a_for_token_b", account_id, <<s[1], s[2]>>,
               swap_token_a_for_token_b(amm, account_id, s[1], s[2]))

SwapTokenBForTokenAOf(bound, accounts, swaps) ==
    \E account_id \in accounts, s \in swaps :
        Mutate(bound, "swap_token_b_for_token_a", account_id, <<s[1], s[2]>>,
               swap_token_b_for_token_a(amm, account_id, s[1], s[2]))

GetFreeTokens == GetFreeTokensOf(Accounts)

Deposit == DepositOf(MaxCalls, Accounts, DepositInputs)

Withdraw == WithdrawOf(MaxCalls, Accounts, ShareInputs)

SwapTokenAForTokenB ==
    SwapTokenAForTokenBOf(MaxCalls, Accounts, SwapArgs)

SwapTokenBForTokenA ==
    SwapTokenBForTokenAOf(MaxCalls, Accounts, SwapArgs)

GetWithdrawAmount ==
    \E share \in ShareInputs :
        Query(MaxCalls, "get_withdraw_amount", <<share>>,
              get_withdraw_amount(amm, share))

GetSwapAmountForTokenB ==
    \E x \in QuoteInputs :
        Query(MaxCalls, "get_swap_amount_for_token_b", <<x>>,
              get_swap_amount_for_token_b(amm, x))

GetSwapAmountForTokenA ==
    \E x \in QuoteInputs :
        Query(MaxCalls, "get_swap_amount_for_token_a", <<x>>,
              get_swap_amount_for_token_a(amm, x))

GetTokenASwapAmountOut ==
    \E x \in QuoteInputs :
        Query(MaxCalls, "get_token_a_swap_amount_out", <<x>>,
              get_token_a_swap_amount_out(amm, x))

GetTokenBSwapAmountOut ==
    \E x \in QuoteInputs :
        Query(MaxCalls, "get_token_b_swap_amount_out", <<x>>,
              get_token_b_swap_amount_out(amm, x))

Next ==
    \/ GetFreeTokens
    \/ Deposit
    \/ Withdraw
    \/ SwapTokenAForTokenB
    \/ SwapTokenBForTokenA
    \/ GetWithdrawAmount
    \/ GetSwapAmountForTokenB
    \/ GetSwapAmountForTokenA
    \/ GetTokenASwapAmountOut
    \/ GetTokenBSwapAmountOut

Spec == Init /\ [][Next]_vars

\* The same operations on a pool whose total_shares is small next to its
\* reserves: one account, longer call sequences, and the amounts that lead
\* there (a withdraw of all but three shares, then deposits and a swap).
PriceAccounts      == {"account-1"}
PriceDepositInputs == {<<10, 10>>, <<7, 7>>, <<3, 4>>}
PriceShareInputs   == {99999997}
PriceSwapInputs    == {1}
PriceMinInputs     == {0}

PriceGetFreeTokens == GetFreeTokensOf(PriceAccounts)

PriceDeposit == DepositOf(MaxPriceCalls, PriceAccounts, PriceDepositInputs)

PriceWithdraw == WithdrawOf(MaxPriceCalls, PriceAccounts, PriceShareInputs)

PriceSwapTokenBForTokenA ==
    SwapTokenBForTokenAOf(MaxPriceCalls, PriceAccounts, PriceSwapInputs \X PriceMinInputs)

PriceSwapTokenAForTokenB ==
    SwapTokenAForTokenBOf(MaxPriceCalls, PriceAccounts, PriceSwapInputs \X PriceMinInputs)

NextPrice ==
    \/ PriceGetFreeTokens
    \/ PriceDeposit
    \/ PriceWithdraw
    \/ PriceSwapTokenBForTokenA
    \/ PriceSwapTokenAForTokenB

SpecPrice == Init /\ [][NextPrice]_vars

\* Seeding with amounts up to u32::MAX, next to deposits into the pool.
U32Max == Pack(65535, 65535)
FaucetSeedInputs    == {<<100, 200>>, <<1, U32Max>>}
FaucetDepositInputs == {<<10, 20>>}

FaucetGetFreeTokens == SeedOf(MaxFaucetSeeds, Accounts, FaucetSeedInputs)

FaucetDeposit == DepositOf(MaxCalls, Accounts, FaucetDepositInputs)

NextFaucet ==
    \/ FaucetGetFreeTokens
    \/ FaucetDeposit

SpecFaucet == Init /\ [][NextFaucet]_vars

\* The same operations on a pool of a few units whose shares were withdrawn
\* down to one: one account, long call sequences, amounts of one and two
\* units, and deposits that fail validation on token A alone, on token B
\* alone and on both: nothing of token A, more of token A than any seeding
\* gives with nothing of token B, and a valid amount of token A with nothing
\* or too much of token B.
DustDepositInputs == {<<1, 1>>, <<2, 2>>, <<1, 2>>, <<0, 300>>,
                      <<1000, 0>>, <<1, 0>>, <<1, 1000>>}
DustShareInputs   == {99999999}
DustSwapInputs    == {1, 2}

DustGetFreeTokens == GetFreeTokensOf(PriceAccounts)

DustDeposit == DepositOf(MaxDustCalls, PriceAccounts, DustDepositInputs)

DustWithdraw == WithdrawOf(MaxDustCalls, PriceAccounts, DustShareInputs)

DustSwapTokenAForTokenB ==
    SwapTokenAForTokenBOf(MaxDustCalls, PriceAccounts, DustSwapInputs \X PriceMinInputs)

DustSwapTokenBForTokenA ==
    SwapTokenBForTokenAOf(MaxDustCalls, PriceAccounts, DustSwapInputs \X PriceMinInputs)

NextDust ==
    \/ DustGetFreeTokens
    \/ DustDeposit
    \/ DustWithdraw
    \/ DustSwapTokenAForTokenB
    \/ DustSwapTokenBForTokenA

SpecDust == Init /\ [][NextDust]_vars

\* --------------------------------------------------- vocabulary of claims
Mutations == {"deposit", "withdraw", "swap_token_a_for_token_b",
              "swap_token_b_for_token_a"}
Quotes    == {"get_withdraw_amount", "get_swap_amount_for_token_b",
              "get_swap_amount_for_token_a", "get_token_a_swap_amount_out",
              "get_token_b_swap_amount_out"}

Succeeded(op) == call.op = op /\ call.res.kind = "Ok"
Failed(op)    == call.op = op /\ call.res.kind = "Err"

RECURSIVE SumHalves(_, _, _)
\* the sum of half(balances[k]) over the keys in keys
SumHalves(balances, keys, high) ==
    IF keys = {} THEN 0
    ELSE LET k == CHOOSE j \in keys : TRUE
         IN  (IF high THEN Hi(balances[k]) ELSE Lo(balances[k]))
             + SumHalves(balances, keys \ {k}, high)

\* x is exactly the sum of the values of balances (no wrap-around)
IsSumOf(x, balances) ==
    LET lo == SumHalves(balances, DOMAIN balances, FALSE)
        hi == SumHalves(balances, DOMAIN balances, TRUE) + (lo \div Two16)
    IN  Lo(x) = lo % Two16 /\ Hi(x) = hi

SameLedger(s, t) ==
    /\ get_pool_info(s) = get_pool_info(t)
    /\ \A account_id \in Accounts :
          get_account_balance(s, account_id) = get_account_balance(t, account_id)

\* the exact product x * y as four 16-bit digits, most significant first
Mul64(x, y) ==
    LET p00 == Mul16(Lo(x), Lo(y))
        p01 == Mul16(Lo(x), Hi(y))
        p10 == Mul16(Hi(x), Lo(y))
        p11 == Mul16(Hi(x), Hi(y))
        t1  == p00[1] + p01[2] + p10[2]
        t2  == p01[1] + p10[1] + p11[2] + (t1 \div Two16)
    IN  <<p11[1] + (t2 \div Two16), t2 % Two16, t1 % Two16, p00[2]>>

\* the test is_pool_active makes on get_pool_balance: the pool is inactive
\* when the product of the reserves is 0 (either reserve is 0) and active
\* when the product is not 0; neither when the product overflows
Inactive(s) == ~get_pool_balance(s).p /\ get_pool_balance(s).v = 0
Active(s)   == ~get_pool_balance(s).p /\ get_pool_balance(s).v # 0

\* floor(x * y / z) when the product fits a u32
ExactMulDiv(x, y, z) == U32Div(U32Mul(x, y), z)
Fits(x, y) == ~MulOverflows(x, y)

\* --------------------------------------------------------------------- C1
\* C1: in every reachable state total_shares equals the sum of the shares
\* of all accounts.
C1_TotalSharesIsSum == IsSumOf(amm.total_pool_shares, amm.user_pool_shares)

\* --------------------------------------------------------------------- C2
\* C2: when deposit, withdraw or a swap returns an Error, the pool tuple and
\* every account's (balance_a, balance_b, shares) are what they were before
\* the call.
C2_ErrorLeavesStateUnchanged ==
    (call.op \in Mutations /\ call.res.kind = "Err") => SameLedger(amm, pre)

\* a swap on the active pool (50, 100) was refused for slippage
C2_Witness_Slippage ==
    /\ Failed("swap_token_a_for_token_b")
    /\ call.res.err = "SlippageExceeded"
    /\ pre.token_a_pool_balance = 50
    /\ pre.token_b_pool_balance = 100

\* --------------------------------------------------------------------- C3
\* C3: a successful withdraw(account, share) returns
\* (reserve_a*share/total_shares, reserve_b*share/total_shares) of the
\* pre-state, decreases total_shares by share and the reserves by the
\* returned amounts, credits the account's balances by the returned amounts
\* and decreases the account's shares by exactly share.
C3_WithdrawEffect ==
    Succeeded("withdraw") =>
        LET share == call.args[1]
            acc   == call.account_id
            ra    == pre.token_a_pool_balance
            rb    == pre.token_b_pool_balance
            ts    == pre.total_pool_shares
            out_a == ExactMulDiv(ra, share, ts)
            out_b == ExactMulDiv(rb, share, ts)
        IN  /\ Fits(ra, share) /\ Fits(rb, share)
            /\ call.res.val = <<out_a, out_b>>
            /\ ULe(share, ts)
            /\ amm.total_pool_shares = U32Sub(ts, share)
            /\ amm.token_a_pool_balance = U32Sub(ra, out_a)
            /\ amm.token_b_pool_balance = U32Sub(rb, out_b)
            /\ ~AddOverflows(Get(pre.token_a_user_balance, acc), out_a)
            /\ ~AddOverflows(Get(pre.token_b_user_balance, acc), out_b)
            /\ Get(amm.token_a_user_balance, acc)
                  = U32Add(Get(pre.token_a_user_balance, acc), out_a)
            /\ Get(amm.token_b_user_balance, acc)
                  = U32Add(Get(pre.token_b_user_balance, acc), out_b)
            /\ ULe(share, Get(pre.user_pool_shares, acc))
            /\ Get(amm.user_pool_shares, acc)
                  = U32Sub(Get(pre.user_pool_shares, acc), share)

\* --------------------------------------------------------------------- C4
\* C4: in every reachable state reserve_a and reserve_b are both zero or
\* both strictly positive.
C4_ReservesBothZeroOrBothPositive ==
    (amm.token_a_pool_balance = 0) = (amm.token_b_pool_balance = 0)

\* --------------------------------------------------------------------- C5
\* C5: a successful swap_a_for_b(account, x, min) returns what the quote for
\* input A / output B, get_swap_amount_for_token_b(x), yields in the
\* pre-state (at fee rate 0: reserve_b - reserve_a*reserve_b/(reserve_a+x)),
\* and a successful swap_b_for_a(account, x, min) returns what the quote for
\* input B / output A yields in the pre-state.
C5_SwapUsesQuoteOfItsDirection ==
    /\ Succeeded("swap_token_a_for_token_b") =>
          LET x  == call.args[1]
              ra == pre.token_a_pool_balance
              rb == pre.token_b_pool_balance
          IN  /\ call.res = get_swap_amount_for_token_b(pre, x)
              /\ (pre.fees = 0 /\ Fits(ra, rb) /\ ~AddOverflows(ra, x)) =>
                    call.res.val[1]
                       = U32Sub(rb, U32Div(U32Mul(ra, rb), U32Add(ra, x)))
    /\ Succeeded("swap_token_b_for_token_a") =>
          call.res = get_swap_amount_for_token_a(pre, call.args[1])

\* --------------------------------------------------------------------- C6
\* C6: every call of deposit, withdraw, a swap or a quote returns a result
\* or a typed Error; none aborts through a division by zero, a subtraction
\* below zero or an overflow, neither before nor after its first write.
C6_NoCallAborts ==
    (call.op \in Mutations \cup Quotes) => call.res.kind # "Panic"

\* --------------------------------------------------------------------- C7
\* C7 as stated: once a deposit has succeeded no later operation brings the
\* pool back to zero reserves, and the bootstrap mint happens at most once
\* (a deposit mints by bootstrap only while no account has ever held shares).
C7_ActiveOnceAndForever ==
    /\ DOMAIN amm.user_pool_shares # {} => ~Inactive(amm)
    /\ (Succeeded("deposit") /\ pre.total_pool_shares = 0) =>
          DOMAIN pre.user_pool_shares = {}

\* C7 as amended: only a deposit call takes the pool out of the inactive
\* state (product of the reserves zero); a successful withdraw of all
\* outstanding shares sets total_shares to 0 and, when reserve*share fits a
\* u32, both reserves to 0, which is inactive again;
\* every successful deposit made while total_shares = 0 mints 100*PRECISION,
\* also one that follows an earlier deposit.
C7_ActivationRecurs ==
    /\ (Inactive(pre) /\ ~Inactive(amm)) => call.op = "deposit"
    /\ (Succeeded("withdraw") /\ call.args[1] = pre.total_pool_shares) =>
          /\ amm.total_pool_shares = 0
          /\ (Fits(pre.token_a_pool_balance, call.args[1])
              /\ Fits(pre.token_b_pool_balance, call.args[1])) =>
                 /\ amm.token_a_pool_balance = 0
                 /\ amm.token_b_pool_balance = 0
                 /\ Inactive(amm)
    /\ (Succeeded("deposit") /\ pre.total_pool_shares = 0) =>
          /\ call.res.val = <<100 * PRECISION>>
          /\ amm.total_pool_shares = 100 * PRECISION

\* the pool was drained by a full withdraw and a deposit minted the bootstrap
\* amount a second time
C7_Witness_SecondBootstrap ==
    /\ Succeeded("deposit")
    /\ pre.total_pool_shares = 0
    /\ Inactive(pre)
    /\ DOMAIN pre.user_pool_shares # {}
    /\ ~Inactive(amm)

\* --------------------------------------------------------------------- C8
\* C8: after a successful deposit(account, a, b) that returned s,
\* get_withdraw_amount(s) returns exactly (a, b).
C8_DepositQuoteRoundTrip ==
    Succeeded("deposit") =>
        get_withdraw_amount(amm, call.res.val[1])
            = Ok(<<call.args[1], call.args[2]>>)

\* --------------------------------------------------------------------- C9
\* C9: a successful deposit made while total_shares = 0 mints exactly
\* 100 * 1_000_000 shares, debits the account by the deposited amounts and
\* leaves the reserves equal to exactly the deposited amounts.
C9_BootstrapDeposit ==
    (Succeeded("deposit") /\ pre.total_pool_shares = 0) =>
        LET acc == call.account_id
            a   == call.args[1]
            b   == call.args[2]
        IN  /\ call.res.val = <<100000000>>
            /\ ULe(a, Get(pre.token_a_user_balance, acc))
            /\ ULe(b, Get(pre.token_b_user_balance, acc))
            /\ Get(amm.token_a_user_balance, acc)
                  = U32Sub(Get(pre.token_a_user_balance, acc), a)
            /\ Get(amm.token_b_user_balance, acc)
                  = U32Sub(Get(pre.token_b_user_balance, acc), b)
            /\ amm.token_a_pool_balance = a
            /\ amm.token_b_pool_balance = b

\* a deposit of (50, 100) into the empty pool succeeded
C9_Witness_FirstDeposit ==
    /\ Succeeded("deposit")
    /\ pre.total_pool_shares = 0
    /\ call.args = <<50, 100>>
    /\ amm.total_pool_shares = 100000000

\* -------------------------------------------------------------------- C10
\* C10: a deposit into an active pool succeeds only if
\* total_shares*amount_a/reserve_a = total_shares*amount_b/reserve_b and
\* fails with NonEquivalentValue otherwise, and a successful deposit into an
\* active pool leaves the reserve ratio as it was
\* (reserve_a' * reserve_b = reserve_a * reserve_b').
C10_DepositKeepsPrice ==
    (call.op = "deposit" /\ Active(pre)) =>
        LET acc == call.account_id
            a   == call.args[1]
            b   == call.args[2]
            ts  == pre.total_pool_shares
            ra  == pre.token_a_pool_balance
            rb  == pre.token_b_pool_balance
            valid == /\ is_valid_amount(acc, pre.token_a_user_balance, a).kind = "Ok"
                     /\ is_valid_amount(acc, pre.token_b_user_balance, b).kind = "Ok"
            fits  == Fits(ts, a) /\ Fits(ts, b)
            equal == ExactMulDiv(ts, a, ra) = ExactMulDiv(ts, b, rb)
        IN  /\ (call.res.kind = "Ok" /\ fits) => equal
            /\ (valid /\ fits /\ ~equal) => call.res = Err("NonEquivalentValue")
            /\ call.res.kind = "Ok" =>
                  Mul64(amm.token_a_pool_balance, rb)
                     = Mul64(ra, amm.token_b_pool_balance)

\* -------------------------------------------------------------------- C11
\* the output-token balance of the account of the last call, in struct s
OutputBalance(s) ==
    IF call.op = "swap_token_a_for_token_b"
    THEN Get(s.token_b_user_balance, call.account_id)
    ELSE Get(s.token_a_user_balance, call.account_id)

\* the input-token balances of struct s for the swap of the last call
InputBalances(s) ==
    IF call.op = "swap_token_a_for_token_b"
    THEN s.token_a_user_balance ELSE s.token_b_user_balance

\* the outcome of the quote the swap of the last call asked for
SwapQuote ==
    IF call.op = "swap_token_a_for_token_b"
    THEN swap_a_quote(pre, call.args[1])
    ELSE get_swap_amount_for_token_a(pre, call.args[1])

Swaps == {"swap_token_a_for_token_b", "swap_token_b_for_token_a"}

\* C11: a swap (either direction) with minimum min succeeds only if the
\* amount it returns and credits to the account is >= min, and a swap whose
\* computed output is below min fails with SlippageExceeded.
C11_SlippageBound ==
    call.op \in Swaps =>
        /\ call.res.kind = "Ok" =>
              /\ ULe(call.args[2], call.res.val[1])
              /\ ~AddOverflows(OutputBalance(pre), call.res.val[1])
              /\ OutputBalance(amm) = U32Add(OutputBalance(pre), call.res.val[1])
        /\ (/\ is_valid_amount(call.account_id, InputBalances(pre),
                               call.args[1]).kind = "Ok"
            /\ SwapQuote.kind = "Ok"
            /\ ULt(SwapQuote.val[1], call.args[2])) =>
              call.res = Err("SlippageExceeded")

\* a swap with a positive minimum succeeded with an output above it
C11_Witness_AboveMinimum ==
    /\ Succeeded("swap_token_a_for_token_b")
    /\ call.args[2] = 51
    /\ ULe(51, call.res.val[1])

\* -------------------------------------------------------------------- C12
\* the input-side and the output-side reserve of struct s for the swap of
\* the last call
InputReserve(s) ==
    IF call.op = "swap_token_a_for_token_b"
    THEN s.token_a_pool_balance ELSE s.token_b_pool_balance

OutputReserve(s) ==
    IF call.op = "swap_token_a_for_token_b"
    THEN s.token_b_pool_balance ELSE s.token_a_pool_balance

\* C12: a successful swap with input x that returned out debits the
\* account's input-token balance by exactly x, increases the input-side
\* reserve by exactly x, decreases the output-side reserve by exactly out,
\* credits the account's output-token balance by exactly out, and leaves
\* total_shares, fee_rate and every account's shares unchanged.
C12_SwapEffect ==
    (call.op \in Swaps /\ call.res.kind = "Ok") =>
        LET acc == call.account_id
            x   == call.args[1]
            out == call.res.val[1]
        IN  /\ ULe(x, Get(InputBalances(pre), acc))
            /\ Get(InputBalances(amm), acc)
                  = U32Sub(Get(InputBalances(pre), acc), x)
            /\ ~AddOverflows(InputReserve(pre), x)
            /\ InputReserve(amm) = U32Add(InputReserve(pre), x)
            /\ ULe(out, OutputReserve(pre))
            /\ OutputReserve(amm) = U32Sub(OutputReserve(pre), out)
            /\ ~AddOverflows(OutputBalance(pre), out)
            /\ OutputBalance(amm) = U32Add(OutputBalance(pre), out)
            /\ amm.total_pool_shares = pre.total_pool_shares
            /\ amm.fees = pre.fees
            /\ amm.user_pool_shares = pre.user_pool_shares

\* the swap of 10 of token B on the pool (50, 100) paid out 5 of token A
C12_Witness_SwapBForA ==
    /\ Succeeded("swap_token_b_for_token_a")
    /\ call.args[1] = 10
    /\ call.res.val = <<5>>
    /\ pre.token_a_pool_balance = 50
    /\ amm.token_a_pool_balance = 45
    /\ amm.token_b_pool_balance = 110

\* -------------------------------------------------------------------- C13
\* the outcome of the swap of the last call on the same struct with fee
\* rate 0
ZeroFeeSwap ==
    swap_token_a_for_token_b([pre EXCEPT !.fees = 0], call.account_id,
                             call.args[1], call.args[2]).res

\* C13: for the same reserves and the same input amount, swapping token A
\* for token B in a pool with a positive fee rate returns a strictly smaller
\* amount than in a pool with fee rate 0.
C13_FeeLowersSwapOutput ==
    (/\ Succeeded("swap_token_a_for_token_b")
     /\ pre.fees # 0
     /\ ZeroFeeSwap.kind = "Ok") =>
        ULt(call.res.val[1], ZeroFeeSwap.val[1])

\* -------------------------------------------------------------------- C14
\* C14: while the pool is inactive (the product of the reserves is zero, the
\* condition on which is_pool_active refuses) no swap and no withdraw
\* succeeds and every pricing query (spot quotes, withdrawal quote,
\* fee-aware swap quotes) fails with ZeroLiquidity; deposit is the only
\* mutation that can succeed from the inactive state.
C14_InactiveRefuses ==
    Inactive(pre) =>
        /\ call.op \in Mutations \ {"deposit"} => call.res.kind = "Err"
        /\ call.op \in Quotes => call.res = Err("ZeroLiquidity")

\* a swap of a valid amount was refused by a pool that is inactive with one
\* reserve drained and the other still holding tokens
C14_Witness_SwapRefused ==
    /\ Failed("swap_token_b_for_token_a")
    /\ call.res.err = "ZeroLiquidity"
    /\ Inactive(pre)
    /\ pre.token_a_pool_balance = 0
    /\ pre.token_b_pool_balance = 30
    /\ call.args[1] = 10

\* -------------------------------------------------------------------- C15
\* C15: fee_rate is in [0, 999] in every reachable state: create(f) sets it
\* to f when f < 1000 and to 0 when f >= 1000, and no operation (seed,
\* deposit, withdraw, swap, quote) ever changes it.
C15_FeeRateInRange ==
    /\ ULt(amm.fees, 1000)
    /\ call.op = "new" =>
          amm.fees = (IF ULt(call.args[1], 1000) THEN call.args[1] ELSE 0)
    /\ call.op # "new" => amm.fees = pre.fees

\* a pool created with fee rate 1000 holds fee rate 0
C15_Witness_Clamped ==
    /\ call.op = "new"
    /\ call.args = <<1000>>
    /\ amm.fees = 0

\* -------------------------------------------------------------------- C16
\* C16: seed_balance(account, a, b) adds exactly (a, b) to that account's
\* (balance_a, balance_b), starting from (0, 0, 0) for an account never seen
\* before and accumulating over repeated seeding, and leaves that account's
\* shares, every other account and the pool tuple unchanged.
C16_SeedAddsExactly ==
    call.op = "get_free_tokens" =>
        LET acc == call.account_id
            was == get_account_balance(pre, acc)
            now == get_account_balance(amm, acc)
        IN  /\ call.res.kind = "Ok"
            /\ acc \notin DOMAIN pre.token_a_user_balance => was = <<0, 0, 0>>
            /\ ~AddOverflows(was[1], call.args[1])
            /\ ~AddOverflows(was[2], call.args[2])
            /\ now = <<U32Add(was[1], call.args[1]),
                       U32Add(was[2], call.args[2]), was[3]>>
            /\ \A other \in Accounts \ {acc} :
                  get_account_balance(amm, other)
                     = get_account_balance(pre, other)
            /\ get_pool_info(amm) = get_pool_info(pre)

\* -------------------------------------------------------------------- C17
\* C17: deposit validates in a fixed order and reports the first failure:
\* token A amount zero -> ZeroAmount, else token A amount above the
\* account's balance_a -> InsufficientAmount, and only then token B amount
\* zero -> ZeroAmount, else above balance_b -> InsufficientAmount; the share
\* checks (NonEquivalentValue, then ThresholdNotReached) come only after
\* both amounts passed.
C17_DepositValidationOrder ==
    call.op = "deposit" =>
        LET a     == call.args[1]
            b     == call.args[2]
            bal_a == Get(pre.token_a_user_balance, call.account_id)
            bal_b == Get(pre.token_b_user_balance, call.account_id)
            ts    == pre.total_pool_shares
            a_ok  == a # 0 /\ ULe(a, bal_a)
            b_ok  == b # 0 /\ ULe(b, bal_b)
        IN  /\ a = 0 => call.res = Err("ZeroAmount")
            /\ (a # 0 /\ ULt(bal_a, a)) => call.res = Err("InsufficientAmount")
            /\ (a_ok /\ b = 0) => call.res = Err("ZeroAmount")
            /\ (a_ok /\ b # 0 /\ ULt(bal_b, b)) =>
                  call.res = Err("InsufficientAmount")
            /\ call.res.err \in {"NonEquivalentValue", "ThresholdNotReached"}
                  => (a_ok /\ b_ok)
            /\ (a_ok /\ b_ok /\ ts # 0 /\ Active(pre)
                /\ Fits(ts, a) /\ Fits(ts, b)) =>
                  LET token_a_share ==
                          ExactMulDiv(ts, a, pre.token_a_pool_balance)
                      token_b_share ==
                          ExactMulDiv(ts, b, pre.token_b_pool_balance)
                  IN  /\ token_a_share # token_b_share =>
                            call.res = Err("NonEquivalentValue")
                      /\ (token_a_share = token_b_share
                          /\ token_a_share = 0) =>
                            call.res = Err("ThresholdNotReached")
                      /\ call.res.kind = "Err" =>
                            (token_a_share # token_b_share
                             \/ token_a_share = 0)

\* a deposit of no token A and more token B than the account holds was
\* refused for the zero amount of token A
C17_Witness_TokenAFirst ==
    /\ call.op = "deposit"
    /\ call.args = <<0, 300>>
    /\ Get(pre.token_b_user_balance, call.account_id) = 200
    /\ call.res = Err("ZeroAmount")

\* -------------------------------------------------------------------- C18
\* reserve plus the sum of the values of balances, exactly, as
\* <<the multiples of 2^16, the rest below 2^16>>
TokenTotal(reserve, balances) ==
    LET lo == Lo(reserve) + SumHalves(balances, DOMAIN balances, FALSE)
        hi == Hi(reserve) + SumHalves(balances, DOMAIN balances, TRUE)
    IN  <<hi + (lo \div Two16), lo % Two16>>

TotalA(s) == TokenTotal(s.token_a_pool_balance, s.token_a_user_balance)
TotalB(s) == TokenTotal(s.token_b_pool_balance, s.token_b_user_balance)

\* total plus the amount x, exactly
TotalPlus(total, x) ==
    <<total[1] + Hi(x) + ((total[2] + Lo(x)) \div Two16),
      (total[2] + Lo(x)) % Two16>>

\* C18: for each token, the pool reserve plus the sum of all accounts'
\* balances of that token is unchanged by every deposit, withdraw and swap,
\* successful or failed; only seed_balance changes it, by exactly the seeded
\* amount.
C18_TokenConservation ==
    /\ call.op \in Mutations =>
          TotalA(amm) = TotalA(pre) /\ TotalB(amm) = TotalB(pre)
    /\ call.op = "get_free_tokens" =>
          /\ TotalA(amm) = TotalPlus(TotalA(pre), call.args[1])
          /\ TotalB(amm) = TotalPlus(TotalB(pre), call.args[2])

\* C18 for the calls that return: the totals are unchanged by every deposit,
\* withdraw and swap that returns Ok or a typed Error.
C18_ReturningCallsConserve ==
    (call.op \in Mutations /\ call.res.kind # "Panic") =>
        TotalA(amm) = TotalA(pre) /\ TotalB(amm) = TotalB(pre)

\* -------------------------------------------------------------------- C19
\* p >= q for two exact products as Mul64 yields them
Ge64(p, q) ==
    \/ p = q
    \/ \E i \in 1..4 : p[i] > q[i] /\ \A j \in 1..(i - 1) : p[j] = q[j]

\* reserve_a * reserve_b of struct s, exactly
Product(s) == Mul64(s.token_a_pool_balance, s.token_b_pool_balance)

\* C19: the constant product never decreases across a swap: for every
\* successful swap_a_for_b or swap_b_for_a from an active pool,
\* reserve_a * reserve_b after the swap is >= reserve_a * reserve_b before it.
C19_ProductNeverDecreases ==
    (call.op \in Swaps /\ call.res.kind = "Ok" /\ Active(pre)) =>
        Ge64(Product(amm), Product(pre))

\* -------------------------------------------------------------------- C20
\* C20: a deposit, withdraw or swap invoked for account X, successful or
\* failed, never changes the balance_a, balance_b or shares of any other
\* account Y # X.
C20_AccountIsolation ==
    call.op \in Mutations =>
        \A other \in Accounts \ {call.account_id} :
            /\ get_account_balance(amm, other) = get_account_balance(pre, other)
            /\ other \in DOMAIN amm.token_a_user_balance
                  <=> other \in DOMAIN pre.token_a_user_balance
            /\ other \in DOMAIN amm.token_b_user_balance
                  <=> other \in DOMAIN pre.token_b_user_balance
            /\ other \in DOMAIN amm.user_pool_shares
                  <=> other \in DOMAIN pre.user_pool_shares

\* account-2 swapped on the pool that holds the deposit of account-1
C20_Witness_SwapByOther ==
    /\ Succeeded("swap_token_b_for_token_a")
    /\ call.account_id = "account-2"
    /\ call.args[1] = 10
    /\ get_account_balance(amm, "account-1") = <<50, 100, 100000000>>
    /\ get_account_balance(amm, "account-2") = <<105, 190, 0>>

====
